---- MODULE Spec2Model ----
(***************************************************************************)
(* LoanOS backend (src/backend/app/main.py): the session context cache     *)
(* and the realtime channel manager, as a state machine.                   *)
(*                                                                         *)
(* Scheduling.  Every handler is an `async def` run by one event loop, so  *)
(* a handler runs without interruption between two points where it really  *)
(* suspends.  websocket.accept(), websocket.receive_text() and             *)
(* websocket.send_json() do transport I/O and may suspend.  The calls      *)
(* supabase...execute() and model.generate_content() are synchronous, and  *)
(* download_document_from_gcs and generate_ai_response are coroutines      *)
(* whose bodies hold no await: awaiting them runs them to completion       *)
(* without yielding.  Hence initialize_session_context, query_loan_context *)
(* and end_session are single steps, and a receive loop is cut at          *)
(* receive_text and at the send of the "processing" acknowledgment.        *)
(***************************************************************************)
EXTENDS Integers, Sequences, FiniteSets, TLC

\* ------------------------------------------------------------------ bounds
MaxConns == 2      \* websocket objects ever opened
MaxCtx   == 2      \* context dicts ever built by initialize_session_context
MaxQuestions == 2  \* questions answered into one conversation log
MaxTurns == 8      \* entries of a conversations column read at initialization
MaxChars == 1002   \* characters of a text object in the bucket

Sessions   == {"s1"}
WebSockets == 1..MaxConns
None       == 0    \* Python None / key absent

\* ------------------------------------------------- the external collaborators
\* The loan_sessions row of a session: its descriptive fields never change, so
\* they are functions of the id; conversations and status are state (db).
LoanName(s) == "Loan A"
UserRole(s) == "Analyst"
Region(s)   == "EU"
\* the row's document list: filename and the extension of its object path
RowDocuments(s) ==
    << [filename |-> "a.pdf", ext |-> "pdf"], [filename |-> "b.txt", ext |-> "txt"],
       [filename |-> "c.csv", ext |-> "csv"], [filename |-> "d.dat", ext |-> "dat"] >>

\* what the bucket gives for an object: bytes that decode as UTF-8, bytes that
\* do not, or an error (the object is missing or unreachable)
Bucket(filename) ==
    CASE filename = "c.csv" -> "error"
      [] filename = "d.dat" -> "undecodable"
      [] OTHER              -> "text"

\* The text of a question message sent when the log holds n entries: empty,
\* blank, or a text between blanks (character sequences).
QuestionNames == << "q1", "q2", "q3", "q4", "q5", "q6" >>
RawQuestions(n) == { << >>, << " " >>, << " ", QuestionNames[(n \div 2) + 1], " " >> }

GeminiModes == {"ok", "down", "broken"}

VARIABLES
    supabase,   \* main.py:31  the supabase client is configured (fixed at start-up)
    gcp,        \* main.py:34  GCP_PROJECT_ID is set (fixed at start-up)
    gemini,     \* "ok"; "down": generate_content raises; "broken": GenerativeModel raises
    gcs,        \* object name -> the text its bytes decode to (fixed at start-up)
    db,         \* the loan_sessions table: id -> row
    manager,    \* main.py:72  [active_connections, session_contexts]
    heap,       \* the context dicts built so far; a reference is an index
    pc,         \* websocket -> position of its websocket_endpoint call
    wsid,       \* websocket -> the session_id path parameter
    wctx,       \* websocket -> the local variable `context` (a reference)
    wq,         \* websocket -> the local variable `question` while it is answered
    gone,       \* websocket -> the client has closed the transport
    out,        \* the websocket messages delivered by the step just taken, in order
    resp,       \* the HTTP response of the step just taken, if it was an HTTP call
    inp,        \* the message or request the step just taken handled
    prompt,     \* the prompt the step just taken assembled for the model
    ready,      \* id -> an initialization call returned success, no teardown since
    lastlog     \* id -> the log of its context when the store last held one

vars == << supabase, gcp, gemini, gcs, db, manager, heap, pc, wsid, wctx, wq, gone,
           out, resp, inp, prompt, ready, lastlog >>

env == << supabase, gcp, gemini, gcs >>

\* a text of n characters; character i is written i
Chars(n) == [ i \in 1..n |-> i ]

FileNames ==
    UNION { { RowDocuments(s)[i].filename : i \in 1..Len(RowDocuments(s)) } : s \in Sessions }

\* ------------------------------------------------------- ConnectionManager
\* connect as `setdefault`: a registered websocket is not replaced
connect_KeepFirst(m, s, w) ==
    IF m.active_connections[s] # None THEN m ELSE [m EXCEPT !.active_connections[s] = w]

\* main.py:52-54 (after accept): the entry of the id is overwritten
connect(m, s, w) ==
    [m EXCEPT !.active_connections[s] = w]

\* disconnect without its second `del`
disconnect_KeepContext(m, s) ==
    [m EXCEPT !.active_connections[s] = None]

\* main.py:56-60
disconnect(m, s) ==
    [m EXCEPT !.active_connections[s] = None, !.session_contexts[s] = None]

\* main.py:66-67
set_context(m, s, ref) ==
    [m EXCEPT !.session_contexts[s] = ref]

\* main.py:69-70
get_context(m, s) ==
    m.session_contexts[s]

\* websockets whose transport still takes a send: the endpoint call is running
\* and the client has not closed
Live == { w \in WebSockets : pc[w] \in {"recv", "processing"} /\ ~gone[w] }

\* main.py:62-64: the websocket send_message looks up, None when there is no entry
send_target(m, s) ==
    m.active_connections[s]

\* main.py:62-64: the message is handed to the websocket registered for the id
\* at the time of the call; with no entry nothing is sent.  The result is what
\* is delivered: a websocket that is not in `live` takes nothing.
send_message(m, live, s, message) ==
    LET t == send_target(m, s) IN
    IF t # None /\ t \in live THEN << [to |-> t, msg |-> message] >> ELSE << >>

\* send_json on a websocket whose endpoint call has returned or whose client has
\* closed either raises or drops the message, depending on the server
SendMayRaise(m, live, s) ==
    send_target(m, s) # None /\ send_target(m, s) \notin live

Msg(type, text, q, a) ==
    [type |-> type, text |-> text, question |-> q, answer |-> a]

NoText == << >>

\* -------------------------------------------------------- Document Fetcher
\* a fetcher whose outer try is missing: the download error propagates
download_document_from_gcs_Raises(doc) ==
    IF ~gcp THEN [kind |-> "empty", of |-> ""]
    ELSE IF doc.ext \in {"pdf", "xlsx", "xls"} THEN [kind |-> "uri", of |-> doc.filename]
    ELSE IF Bucket(doc.filename) = "error" THEN [kind |-> "raised", of |-> ""]
    ELSE IF Bucket(doc.filename) = "text"
         THEN [kind |-> "text", of |-> doc.filename, text |-> gcs[doc.filename]]
    ELSE [kind |-> "uri", of |-> doc.filename]

\* A content is "" (empty), a gs:// URI (uri) or decoded text (text).
\* main.py:344-376
download_document_from_gcs(doc) ==
    IF ~gcp THEN [kind |-> "empty", of |-> ""]
    ELSE IF doc.ext \in {"pdf", "xlsx", "xls"} THEN [kind |-> "uri", of |-> doc.filename]
    ELSE IF Bucket(doc.filename) = "error" THEN [kind |-> "empty", of |-> ""]
    ELSE IF Bucket(doc.filename) = "text"
         THEN [kind |-> "text", of |-> doc.filename, text |-> gcs[doc.filename]]
    ELSE [kind |-> "uri", of |-> doc.filename]

\* main.py:137-138: a document whose download raised is not appended
Appended(d) == d.content.kind # "raised"

\* main.py:123-138
DocumentContents(docs) ==
    SelectSeq([ i \in 1..Len(docs) |->
                  [filename |-> docs[i].filename,
                   content  |-> download_document_from_gcs(docs[i]),
                   type     |-> docs[i].ext] ],
              Appended)

\* main.py:160-212: the key document_summaries is set when there are documents,
\* GCP is set and GenerativeModel(...) did not raise
HasSummaries(contents) ==
    contents # << >> /\ gcp /\ gemini # "broken"

\* main.py:158-205: one entry per document, processed unless its
\* generate_content call raised
DocumentSummaries(contents) ==
    IF ~HasSummaries(contents) THEN << >>
    ELSE [ i \in 1..Len(contents) |->
            [filename |-> contents[i].filename, processed |-> (gemini = "ok")] ]

\* main.py:141-154, 208
BuildContext(s, row, contents) ==
    [session_id    |-> s,
     loan_name     |-> LoanName(s),
     user_role     |-> UserRole(s),
     region        |-> Region(s),
     documents     |-> contents,
     conversations |-> row.conversations,
     has_summaries |-> HasSummaries(contents),
     document_summaries |-> DocumentSummaries(contents)]

\* the handler's dict when the row is missing or the fetch raised: nothing of
\* the row is in it
PartialContext(s) ==
    [session_id    |-> s,
     loan_name     |-> "",
     user_role     |-> "",
     region        |-> "",
     documents     |-> << >>,
     conversations |-> << >>,
     has_summaries |-> FALSE,
     document_summaries |-> << >>]

CountProcessed(sums) ==
    Cardinality({ i \in 1..Len(sums) : sums[i].processed })

\* main.py:217-228
BuiltSummary(context) ==
    [loan_name           |-> context.loan_name,
     user_role           |-> context.user_role,
     document_count      |-> Len(context.documents),
     region              |-> context.region,
     documents_processed |-> CountProcessed(context.document_summaries),
     document_summaries  |-> context.document_summaries]

\* main.py:102-111
CachedSummary(context) ==
    [loan_name      |-> context.loan_name,
     user_role      |-> context.user_role,
     document_count |-> Len(context.documents),
     region         |-> context.region]

\* the handler without its cache test
ExistingContextHit_Never(existing) ==
    FALSE

\* main.py:100: `if existing_context:`; a context dict is never empty
ExistingContextHit(existing) ==
    existing # None

\* main.py:94-119, 230-234: which way the handler goes
InitPath(existing, fetch) ==
    IF ~supabase THEN "unconfigured"
    ELSE IF ExistingContextHit(existing) THEN "cached"
    ELSE IF fetch = "raise" THEN "fetch_error"
    ELSE IF fetch = "nodata" THEN "not_found"
    ELSE "built"

\* set_context moved ahead of the statements that can raise: the dict is
\* stored whatever the handler's way out
StoreBuilt_Always(m, hp, s, path, context) ==
    [manager |-> set_context(m, s, Len(hp) + 1), heap |-> Append(hp, context)]

\* main.py:215: set_context is the last statement of the success path, after
\* everything that can raise
StoreBuilt(m, hp, s, path, context) ==
    IF path = "built"
    THEN [manager |-> set_context(m, s, Len(hp) + 1), heap |-> Append(hp, context)]
    ELSE [manager |-> m, heap |-> hp]

\* main.py:96, 119, 234
InitStatus(path) ==
    CASE path = "unconfigured" -> 500
      [] path = "fetch_error"  -> 500
      [] path = "not_found"    -> 404
      [] OTHER                 -> 200

\* an HTTP response; fetched and processed say whether the call read the row
\* and whether it downloaded and summarised documents
Response(op, s, status, kind, body) ==
    [op |-> op, sid |-> s, status |-> status, kind |-> kind, body |-> body,
     fetched   |-> kind \in {"fetch_error", "not_found", "built", "fallback"},
     processed |-> kind = "built"]

NoBody == [detail |-> "none"]

\* resp holds the response of the step just taken; a step that is no HTTP call
\* leaves none
NoResponse == Response("none", "", 0, "none", NoBody)

\* what a step handled: a websocket message (its type, the websocket, the
\* question text), the outcome of the persist of an answer step, or the fields
\* of a /api/query request and the outcome of its row fetch
Input(op, w, arg, ok, fetch) ==
    [op |-> op, w |-> w, arg |-> arg, ok |-> ok, fetch |-> fetch]

NoInput == Input("none", None, << >>, TRUE, "none")

NoPrompt == [question |-> << >>]

\* the outputs of the last step have been handed over
Quiet == resp = NoResponse /\ out = << >> /\ inp = NoInput /\ prompt = NoPrompt

\* lastlog follows the log of the stored context and keeps it when the
\* context leaves the store
Observe ==
    lastlog' = [ s \in Sessions |->
                   IF manager'.session_contexts[s] # None
                   THEN heap'[manager'.session_contexts[s]].conversations
                   ELSE lastlog[s] ]

\* what the fetch of the row can give: the row, no data, or an exception
FetchOutcomes(s) ==
    IF db[s].present THEN {"data", "raise"} ELSE {"nodata", "raise"}


\* A context dict lives as long as something refers to it: the store, or the
\* local variable of a running endpoint call.  A slot nothing refers to is
\* cleared, as the interpreter frees the dict.
Referenced(m, wc) ==
    { m.session_contexts[s] : s \in Sessions } \cup { wc[w] : w \in WebSockets }

Collect(hp, m, wc) ==
    [ i \in 1..Len(hp) |-> IF i \in Referenced(m, wc) THEN hp[i] ELSE PartialContext("") ]

\* main.py:88-234  POST /api/session/context
initialize_session_context(s, fetch) ==
    LET existing == get_context(manager, s)
        path     == InitPath(existing, fetch)
        context  == IF path = "built"
                    THEN BuildContext(s, db[s], DocumentContents(RowDocuments(s)))
                    ELSE PartialContext(s)
        st       == StoreBuilt(manager, heap, s, path, context)
        body     == CASE path = "cached" -> CachedSummary(heap[existing])
                      [] path = "built"  -> BuiltSummary(context)
                      [] OTHER           -> NoBody
    IN
    /\ Quiet
    /\ Len(st.heap) <= MaxCtx
    /\ manager' = st.manager
    /\ heap' = Collect(st.heap, st.manager, wctx)
    /\ resp' = Response("init", s, InitStatus(path), path, body)
    /\ inp' = Input("init", None, << >>, TRUE, fetch)
    /\ prompt' = NoPrompt
    /\ ready' = IF InitStatus(path) = 200 THEN [ready EXCEPT ![s] = TRUE] ELSE ready
    /\ out' = << >>
    /\ UNCHANGED << env, db, pc, wsid, wctx, wq, gone >>
    /\ Observe

InitializeSessionContext ==
    \E s \in Sessions : \E fetch \in FetchOutcomes(s) :
        initialize_session_context(s, fetch)

\* --------------------------------------------------------- Prompt Assembler
HistoryWindow == 6

\* a prompt that takes the whole log
History_All(conversations) ==
    conversations

\* main.py:421  context.get('conversations', [])[-6:]
History(conversations) ==
    IF Len(conversations) <= HistoryWindow THEN conversations
    ELSE SubSeq(conversations, Len(conversations) - HistoryWindow + 1, Len(conversations))

SnippetLimit == 1000
MinContent   == 10

\* a prompt that takes the whole text
Snippet_Whole(text) ==
    text

\* main.py:417  content[:1000] if len(content) > 1000 else content
Snippet(text) ==
    IF Len(text) > SnippetLimit THEN SubSeq(text, 1, SnippetLimit) ELSE text

\* main.py:415  `elif content and len(content) > 10`
Inline(content) ==
    content.kind = "text" /\ Len(content.text) > MinContent

\* main.py:405-418: every document is listed by name; a gs:// content becomes
\* a Part, a text content of more than 10 characters a line with its snippet
\* and "...", any other content nothing more
DocumentSection(documents) ==
    [ i \in 1..Len(documents) |->
        [filename |-> documents[i].filename,
         as       |-> CASE documents[i].content.kind = "uri" -> "part"
                        [] Inline(documents[i].content)      -> "snippet"
                        [] OTHER                             -> "name",
         text     |-> IF Inline(documents[i].content)
                      THEN Append(Snippet(documents[i].content.text), "...")
                      ELSE << >>] ]

\* main.py:389-443, 456: the content handed to generate_content
AssemblePrompt(context, question) ==
    [loan_name |-> context.loan_name,
     user_role |-> context.user_role,
     region    |-> context.region,
     documents |-> DocumentSection(context.documents),
     history   |-> History(context.conversations),
     question  |-> question]

\* main.py:385-386: without a GCP project the responder returns before it
\* assembles anything
PromptOf(context, question) ==
    IF ~gcp THEN NoPrompt ELSE AssemblePrompt(context, question)

\* ------------------------------------------------------------ AI Responder
Answer(question) == << "A", question >>
NotConfigured    == << "AI service is not configured" >>
Apology(context) == << "I apologize", context.loan_name >>

Returned(text) == [raised |-> FALSE, text |-> text]
Raised         == [raised |-> TRUE, text |-> << >>]

\* the responder without its except clause
generate_ai_response_Propagates(context, question) ==
    IF ~gcp THEN Returned(NotConfigured)
    ELSE IF gemini # "ok" THEN Raised
    ELSE Returned(Answer(question))

\* main.py:379-470: everything after the configuration test runs inside one
\* try whose handler returns the apology
generate_ai_response(context, question) ==
    IF ~gcp THEN Returned(NotConfigured)
    ELSE IF gemini # "ok" THEN Returned(Apology(context))
    ELSE Returned(Answer(question))

\* ------------------------------------------------------ Realtime channel
RECURSIVE LStrip(_)
LStrip(q) ==
    IF q # << >> /\ Head(q) = " " THEN LStrip(Tail(q)) ELSE q

RECURSIVE RStrip(_)
RStrip(q) ==
    IF q # << >> /\ q[Len(q)] = " " THEN RStrip(SubSeq(q, 1, Len(q) - 1)) ELSE q

\* the question taken as it came, untrimmed
Strip_None(q) == q

\* main.py:272  str.strip()
Strip(q) == RStrip(LStrip(q))

Turn(role, message) == [role |-> role, message |-> message]

\* main.py:291-304: the user entry, then the assistant entry
AppendExchange(context, question, answer) ==
    [context EXCEPT !.conversations =
        Append(Append(@, Turn("user", question)), Turn("assistant", answer))]

\* main.py:307-313: the update is skipped without a client, changes nothing
\* when it raises, and touches no row when none has the id
PersistConversations(d, s, conversations, persistOK) ==
    IF supabase /\ persistOK /\ d[s].present
    THEN [d EXCEPT ![s].conversations = conversations]
    ELSE d

\* main.py:336-341: both handlers of the endpoint's try call
\* manager.disconnect; the call then returns and its locals are gone
Teardown(w, hp) ==
    /\ manager' = disconnect(manager, wsid[w])
    /\ ready' = [ready EXCEPT ![wsid[w]] = FALSE]
    /\ pc' = [pc EXCEPT ![w] = "closed"]
    /\ wctx' = [wctx EXCEPT ![w] = None]
    /\ wq' = [wq EXCEPT ![w] = << >>]
    /\ gone' = [gone EXCEPT ![w] = FALSE]
    /\ heap' = Collect(hp, manager', wctx')

\* main.py:237-264: accept, register, look the context up, then the error and
\* return, or the welcome and the loop.  Websocket objects are interchangeable:
\* they are taken in index order.
websocket_endpoint_connect(w, s) ==
    LET m1      == connect(manager, s, w)
        context == get_context(m1, s)
        live    == Live \cup {w}
    IN
    /\ Quiet
    /\ pc[w] = "new"
    /\ \A v \in WebSockets : v < w => pc[v] # "new"
    /\ manager' = m1
    /\ wsid' = [wsid EXCEPT ![w] = s]
    /\ IF context = None
       THEN /\ out' = send_message(m1, live, s, Msg("error", "no_context", NoText, NoText))
            /\ pc' = [pc EXCEPT ![w] = "closed"]
            /\ UNCHANGED wctx
       ELSE /\ out' = send_message(m1, live, s, Msg("system", "connected", NoText, NoText))
            /\ pc' = [pc EXCEPT ![w] = "recv"]
            /\ wctx' = [wctx EXCEPT ![w] = context]
    /\ resp' = NoResponse
    /\ inp' = NoInput
    /\ prompt' = NoPrompt
    /\ UNCHANGED << env, db, heap, wq, gone, ready >>
    /\ Observe

WsConnect ==
    \E w \in WebSockets : \E s \in Sessions : websocket_endpoint_connect(w, s)

\* main.py:268-285: a {"type":"question"} message up to the acknowledgment
websocket_endpoint_question(w, raw, raises) ==
    LET s        == wsid[w]
        question == Strip(raw)
        message  == IF question = << >>
                    THEN Msg("error", "empty", NoText, NoText)
                    ELSE Msg("processing", "processing", NoText, NoText)
    IN
    /\ Quiet
    /\ pc[w] = "recv" /\ ~gone[w]
    /\ question # << >> => Len(heap[wctx[w]].conversations) < 2 * MaxQuestions
    /\ raises => SendMayRaise(manager, Live, s)
    /\ IF raises
       THEN /\ Teardown(w, heap)
            /\ out' = << >>
       ELSE /\ out' = send_message(manager, Live, s, message)
            /\ pc' = [pc EXCEPT ![w] = IF question = << >> THEN "recv" ELSE "processing"]
            /\ wq' = [wq EXCEPT ![w] = question]
            /\ UNCHANGED << manager, ready, wctx, gone, heap >>
    /\ resp' = NoResponse
    /\ inp' = Input("question", w, raw, TRUE, "none")
    /\ prompt' = NoPrompt
    /\ UNCHANGED << env, db, wsid >>
    /\ Observe

WsQuestion ==
    \E w \in WebSockets : \E raises \in BOOLEAN :
      \E raw \in RawQuestions(IF wctx[w] = None THEN 0 ELSE Len(heap[wctx[w]].conversations)) :
        websocket_endpoint_question(w, raw, raises)

\* a persist whose error is not caught where it happens
PersistRaises_Uncaught(persistOK) ==
    ~persistOK

\* main.py:307-313: the update runs in a try of its own whose handler only
\* prints, so a failed persist raises nothing into the answer branch
PersistRaises(persistOK) ==
    FALSE

\* main.py:287-328: the responder, the two appends, the persist, the answer
websocket_endpoint_answer(w, persistOK, raises, raises2) ==
    LET s       == wsid[w]
        ref     == wctx[w]
        r       == generate_ai_response(heap[ref], wq[w])
        context == AppendExchange(heap[ref], wq[w], r.text)
        hp1     == IF r.raised THEN heap ELSE [heap EXCEPT ![ref] = context]
        answer  == Msg("answer", "answer", wq[w], r.text)
        error   == Msg("error", "gen_error", NoText, NoText)
        failed  == r.raised \/ PersistRaises(persistOK)
    IN
    /\ Quiet
    /\ pc[w] = "processing"
    /\ (raises \/ raises2) => SendMayRaise(manager, Live, s)
    /\ raises2 => (raises \/ failed)
    /\ raises => ~failed
    /\ db' = IF r.raised THEN db
             ELSE PersistConversations(db, s, context.conversations, persistOK)
    /\ IF raises2
       THEN /\ Teardown(w, hp1)
            /\ out' = << >>
       ELSE /\ out' = IF raises THEN << >>
                      ELSE send_message(manager, Live, s, IF failed THEN error ELSE answer)
            /\ pc' = [pc EXCEPT ![w] = "recv"]
            /\ wq' = [wq EXCEPT ![w] = << >>]
            /\ heap' = hp1
            /\ UNCHANGED << manager, ready, wctx, gone >>
    /\ resp' = NoResponse
    /\ inp' = Input("answer", w, wq[w], persistOK, "none")
    /\ prompt' = PromptOf(heap[ref], wq[w])
    /\ UNCHANGED << env, wsid >>
    /\ Observe

WsAnswer ==
    \E w \in WebSockets : \E persistOK, raises, raises2 \in BOOLEAN :
        websocket_endpoint_answer(w, persistOK, raises, raises2)

\* a ping branch that replies nothing
websocket_endpoint_ping_Silent(w, raises) ==
    /\ Quiet
    /\ pc[w] = "recv" /\ ~gone[w]
    /\ ~raises
    /\ out' = << >>
    /\ resp' = NoResponse
    /\ inp' = Input("ping", w, << >>, TRUE, "none")
    /\ prompt' = NoPrompt
    /\ UNCHANGED << env, db, manager, heap, pc, wsid, wctx, wq, gone, ready >>
    /\ Observe

\* main.py:330-334: a {"type":"ping"} message
websocket_endpoint_ping(w, raises) ==
    /\ Quiet
    /\ pc[w] = "recv" /\ ~gone[w]
    /\ raises => SendMayRaise(manager, Live, wsid[w])
    /\ IF raises
       THEN /\ Teardown(w, heap)
            /\ out' = << >>
       ELSE /\ out' = send_message(manager, Live, wsid[w], Msg("pong", "timestamp", NoText, NoText))
            /\ UNCHANGED << manager, ready, pc, wctx, wq, gone, heap >>
    /\ resp' = NoResponse
    /\ inp' = Input("ping", w, << >>, TRUE, "none")
    /\ prompt' = NoPrompt
    /\ UNCHANGED << env, db, wsid >>
    /\ Observe

WsPing ==
    \E w \in WebSockets : \E raises \in BOOLEAN : websocket_endpoint_ping(w, raises)

\* a loop whose if/elif chain ends in an else that raises
websocket_endpoint_other_Closes(w) ==
    /\ Quiet
    /\ pc[w] = "recv" /\ ~gone[w]
    /\ Teardown(w, heap)
    /\ out' = << >>
    /\ resp' = NoResponse
    /\ inp' = Input("other", w, << >>, TRUE, "none")
    /\ prompt' = NoPrompt
    /\ UNCHANGED << env, db, wsid >>
    /\ Observe

\* main.py:271, 330: a message whose type is neither "question" nor "ping"
\* matches no branch, and the loop receives again
websocket_endpoint_other(w) ==
    /\ Quiet
    /\ pc[w] = "recv" /\ ~gone[w]
    /\ out' = << >>
    /\ resp' = NoResponse
    /\ inp' = Input("other", w, << >>, TRUE, "none")
    /\ prompt' = NoPrompt
    /\ UNCHANGED << env, db, manager, heap, pc, wsid, wctx, wq, gone, ready >>
    /\ Observe

WsOther ==
    \E w \in WebSockets : websocket_endpoint_other(w)

\* main.py:269-272, 339-341: text that is no JSON object, or a question that is
\* no string, raises inside the loop
websocket_endpoint_bad_message(w) ==
    /\ Quiet
    /\ pc[w] = "recv" /\ ~gone[w]
    /\ Teardown(w, heap)
    /\ out' = << >>
    /\ resp' = NoResponse
    /\ inp' = NoInput
    /\ prompt' = NoPrompt
    /\ UNCHANGED << env, db, wsid >>
    /\ Observe

WsBadMessage ==
    \E w \in WebSockets : websocket_endpoint_bad_message(w)

\* the client closes the transport while its question is being answered; the
\* loop learns of it at its next receive_text
client_close(w) ==
    /\ Quiet
    /\ pc[w] = "processing" /\ ~gone[w]
    /\ gone' = [gone EXCEPT ![w] = TRUE]
    /\ out' = << >>
    /\ resp' = NoResponse
    /\ inp' = NoInput
    /\ prompt' = NoPrompt
    /\ UNCHANGED << env, db, manager, heap, pc, wsid, wctx, wq, ready >>
    /\ Observe

ClientClose ==
    \E w \in WebSockets : client_close(w)

\* main.py:268, 336-338: receive_text raises WebSocketDisconnect, at once when
\* the client closes while the loop waits there
websocket_endpoint_disconnect(w) ==
    /\ Quiet
    /\ pc[w] = "recv"
    /\ Teardown(w, heap)
    /\ out' = << >>
    /\ resp' = NoResponse
    /\ inp' = NoInput
    /\ prompt' = NoPrompt
    /\ UNCHANGED << env, db, wsid >>
    /\ Observe

WsDisconnect ==
    \E w \in WebSockets : websocket_endpoint_disconnect(w)

\* ------------------------------------------------------------------ HTTP
\* main.py:509-519: the fallback context of /api/query, never stored; the row's
\* document list is taken as it is, so no document has a content
MinimalContext(s, row) ==
    [session_id    |-> s,
     loan_name     |-> LoanName(s),
     user_role     |-> UserRole(s),
     region        |-> Region(s),
     documents     |-> [ i \in 1..Len(RowDocuments(s)) |->
                          [filename |-> RowDocuments(s)[i].filename,
                           content  |-> [kind |-> "empty", of |-> ""],
                           type     |-> RowDocuments(s)[i].ext] ],
     conversations |-> row.conversations,
     has_summaries |-> FALSE,
     document_summaries |-> << >>]

\* the handler reading the row before it looks at the store
QueryPath_NoCache(sid, question, fetch) ==
    IF sid = "" \/ question = << >> THEN "invalid"
    ELSE IF ~supabase THEN "unconfigured"
    ELSE IF fetch = "raise" THEN "fetch_error"
    ELSE IF fetch = "nodata" THEN "not_found"
    ELSE "fallback"

\* main.py:484-504, 533-539: which way the handler goes; sid is "" and question
\* is << >> when the field is missing or empty
QueryPath(sid, question, fetch) ==
    IF sid = "" \/ question = << >> THEN "invalid"
    ELSE IF get_context(manager, sid) # None THEN "cached"
    ELSE IF ~supabase THEN "unconfigured"
    ELSE IF fetch = "raise" THEN "fetch_error"
    ELSE IF fetch = "nodata" THEN "not_found"
    ELSE "fallback"

\* main.py:485, 496, 504, 539
QueryStatus(path) ==
    CASE path = "invalid"      -> 400
      [] path = "unconfigured" -> 500
      [] path = "fetch_error"  -> 500
      [] path = "not_found"    -> 404
      [] OTHER                 -> 200

\* main.py:473-539  POST /api/query
query_loan_context(sid, question, fetch) ==
    LET path    == QueryPath(sid, question, fetch)
        context == IF path = "cached" THEN heap[get_context(manager, sid)]
                   ELSE IF path = "fallback" THEN MinimalContext(sid, db[sid])
                   ELSE PartialContext(sid)
        r       == generate_ai_response(context, question)
        status  == IF path \in {"cached", "fallback"} /\ r.raised THEN 500
                   ELSE QueryStatus(path)
        body    == IF status = 200 THEN [answer |-> r.text] ELSE NoBody
    IN
    /\ Quiet
    /\ resp' = Response("query", sid, status, path, body)
    /\ inp' = Input("query", None, question, TRUE, fetch)
    /\ prompt' = IF path \in {"cached", "fallback"} THEN PromptOf(context, question)
                 ELSE NoPrompt
    /\ out' = << >>
    /\ UNCHANGED << env, db, manager, heap, pc, wsid, wctx, wq, gone, ready >>
    /\ Observe

QueryInputs == { << >>, << "q0" >> }

QueryLoanContext ==
    \E sid \in Sessions \cup {""} : \E question \in QueryInputs :
      \E fetch \in (IF sid = "" THEN {"raise"} ELSE FetchOutcomes(sid)) :
          query_loan_context(sid, question, fetch)

\* main.py:542-564  GET /api/session/{id}/context
get_session_context(s) ==
    LET ref == get_context(manager, s) IN
    /\ Quiet
    /\ resp' = IF ref = None
               THEN Response("context", s, 404, "absent", NoBody)
               ELSE Response("context", s, 200, "cached",
                             [document_count     |-> Len(heap[ref].documents),
                              conversation_count |-> Len(heap[ref].conversations)])
    /\ inp' = NoInput
    /\ prompt' = NoPrompt
    /\ out' = << >>
    /\ UNCHANGED << env, db, manager, heap, pc, wsid, wctx, wq, gone, ready >>
    /\ Observe

GetSessionContext ==
    \E s \in Sessions : get_session_context(s)

\* main.py:576-583: the status update is skipped without a client, changes
\* nothing when it raises, and touches no row when none has the id
MarkCompleted(d, s, updateOK) ==
    IF supabase /\ updateOK /\ d[s].present
    THEN [d EXCEPT ![s].status = "Completed"]
    ELSE d

\* main.py:572-585: the teardown is inside `if context:`
EndTeardown(m, s) ==
    IF get_context(m, s) # None THEN disconnect(m, s) ELSE m

\* main.py:567-590  POST /api/session/{id}/end
end_session(s, updateOK) ==
    /\ Quiet
    /\ db' = IF get_context(manager, s) # None THEN MarkCompleted(db, s, updateOK) ELSE db
    /\ manager' = EndTeardown(manager, s)
    /\ heap' = Collect(heap, manager', wctx)
    /\ ready' = IF get_context(manager, s) # None THEN [ready EXCEPT ![s] = FALSE] ELSE ready
    /\ resp' = Response("end", s, 200, "ended", NoBody)
    /\ inp' = NoInput
    /\ prompt' = NoPrompt
    /\ out' = << >>
    /\ UNCHANGED << env, pc, wsid, wctx, wq, gone >>
    /\ Observe

EndSession ==
    \E s \in Sessions : \E updateOK \in BOOLEAN : end_session(s, updateOK)

\* The HTTP response and the websocket messages of a step reach their
\* receivers before the next step starts.
Deliver ==
    /\ ~Quiet
    /\ resp' = NoResponse
    /\ inp' = NoInput
    /\ prompt' = NoPrompt
    /\ out' = << >>
    /\ UNCHANGED << env, db, manager, heap, pc, wsid, wctx, wq, gone, ready >>
    /\ Observe

\* ------------------------------------------------------------ the machine
Row(present) == [present |-> present, conversations |-> << >>, status |-> "Active"]

\* The collaborators are drawn once: configuration, whether the row exists and
\* how the generative model behaves.  Without a GCP project the model is never
\* called, so its behaviour is drawn in one way only.
Init ==
    /\ supabase \in BOOLEAN
    /\ gcp \in BOOLEAN
    /\ gemini \in IF gcp THEN GeminiModes ELSE {"ok"}
    /\ gcs = [f \in FileNames |-> Chars(12)]
    /\ db \in { [s \in Sessions |-> Row(p)] : p \in BOOLEAN }
    /\ manager = [active_connections |-> [s \in Sessions |-> None],
                  session_contexts   |-> [s \in Sessions |-> None]]
    /\ heap = << >>
    /\ pc = [w \in WebSockets |-> "new"]
    /\ wsid = [w \in WebSockets |-> ""]
    /\ wctx = [w \in WebSockets |-> None]
    /\ wq = [w \in WebSockets |-> << >>]
    /\ gone = [w \in WebSockets |-> FALSE]
    /\ out = << >>
    /\ resp = NoResponse
    /\ inp = NoInput
    /\ prompt = NoPrompt
    /\ ready = [s \in Sessions |-> FALSE]
    /\ lastlog = [s \in Sessions |-> << >>]

Next ==
    \/ InitializeSessionContext
    \/ WsConnect
    \/ WsQuestion
    \/ WsAnswer
    \/ WsPing
    \/ WsOther
    \/ WsBadMessage
    \/ ClientClose
    \/ WsDisconnect
    \/ QueryLoanContext
    \/ GetSessionContext
    \/ EndSession
    \/ Deliver

Spec == Init /\ [][Next]_vars

\* main.py:282-289: once the "processing" send has returned, the loop goes on
\* to the responder call, which is synchronous and returns; the event loop
\* resumes every ready task, so the answer step is taken, and a message handed
\* to a socket is delivered.
Fairness ==
    /\ \A w \in WebSockets :
         SF_vars(\E persistOK, raises, raises2 \in BOOLEAN :
                     websocket_endpoint_answer(w, persistOK, raises, raises2))
    /\ WF_vars(Deliver)

SpecFair == Spec /\ Fairness

\* ----------------------------------------- the prompt of a session with a past
\* A session that was used before: the conversations column of its row holds
\* any log of up to MaxTurns entries, the session has been initialized from
\* it, and /api/query is asked.
PastTurns == { Turn("user", << "m1" >>), Turn("assistant", << "m2" >>) }

PastLogs == UNION { [1..n -> PastTurns] : n \in 0..MaxTurns }

PastRow(log) == [present |-> TRUE, conversations |-> log, status |-> "Active"]

InitPrompt ==
    /\ supabase = TRUE
    /\ gcp = TRUE
    /\ gemini \in GeminiModes
    /\ gcs = [f \in FileNames |-> Chars(12)]
    /\ db \in { [s \in Sessions |-> PastRow(log)] : log \in PastLogs }
    /\ manager = [active_connections |-> [s \in Sessions |-> None],
                  session_contexts   |-> [s \in Sessions |-> 1]]
    /\ heap = << BuildContext("s1", db["s1"], DocumentContents(RowDocuments("s1"))) >>
    /\ pc = [w \in WebSockets |-> "new"]
    /\ wsid = [w \in WebSockets |-> ""]
    /\ wctx = [w \in WebSockets |-> None]
    /\ wq = [w \in WebSockets |-> << >>]
    /\ gone = [w \in WebSockets |-> FALSE]
    /\ out = << >>
    /\ resp = NoResponse
    /\ inp = NoInput
    /\ prompt = NoPrompt
    /\ ready = [s \in Sessions |-> TRUE]
    /\ lastlog = [s \in Sessions |-> db[s].conversations]

NextPrompt ==
    \/ QueryLoanContext
    \/ Deliver

SpecPrompt == InitPrompt /\ [][NextPrompt]_vars

\* ------------------------------------- the prompt of a session with documents
\* The text object of the row's document list holds any text of up to MaxChars
\* characters; the session has been initialized and /api/query is asked.
InitSnippet ==
    /\ supabase = TRUE
    /\ gcp = TRUE
    /\ gemini = "ok"
    /\ gcs \in { [f \in FileNames |-> Chars(n)] : n \in 0..MaxChars }
    /\ db = [s \in Sessions |-> Row(TRUE)]
    /\ manager = [active_connections |-> [s \in Sessions |-> None],
                  session_contexts   |-> [s \in Sessions |-> 1]]
    /\ heap = << BuildContext("s1", db["s1"], DocumentContents(RowDocuments("s1"))) >>
    /\ pc = [w \in WebSockets |-> "new"]
    /\ wsid = [w \in WebSockets |-> ""]
    /\ wctx = [w \in WebSockets |-> None]
    /\ wq = [w \in WebSockets |-> << >>]
    /\ gone = [w \in WebSockets |-> FALSE]
    /\ out = << >>
    /\ resp = NoResponse
    /\ inp = NoInput
    /\ prompt = NoPrompt
    /\ ready = [s \in Sessions |-> TRUE]
    /\ lastlog = [s \in Sessions |-> << >>]

SpecSnippet == InitSnippet /\ [][NextPrompt]_vars

\* --------------------------------------------------------- the properties
Running(w) == pc[w] \in {"recv", "processing"}

ContextOf(s) == get_context(manager, s)
EntryOf(s)   == manager.active_connections[s]

\* the websocket that connected last for an id (they connect in index order)
Newest(p, ids, s) ==
    LET C == { w \in WebSockets : p[w] # "new" /\ ids[w] = s } IN
    IF C = {} THEN None ELSE CHOOSE w \in C : \A v \in C : v <= w

NoContextError == Msg("error", "no_context", NoText, NoText)
Processing     == Msg("processing", "processing", NoText, NoText)

\* C1: a context is in the store exactly while the session is initialised (an
\* initialization call returned success and no teardown followed), and a stored
\* context is the complete one built from the row: a call that ends in 404 or
\* 500 stores nothing.
C1_ContextIffInitialized ==
    \A s \in Sessions :
        /\ (ContextOf(s) # None) <=> ready[s]
        /\ ContextOf(s) # None =>
              /\ heap[ContextOf(s)].session_id = s
              /\ heap[ContextOf(s)].loan_name = LoanName(s)
              /\ Len(heap[ContextOf(s)].documents) = Len(RowDocuments(s))
        /\ (resp.op = "init" /\ resp.sid = s /\ resp.status # 200) => ContextOf(s) = None

C1_Witness ==
    \E s \in Sessions :
        resp.op = "init" /\ resp.kind = "built" /\ resp.sid = s /\ ContextOf(s) # None

\* C2: an initialization call for an id whose context is in the store is
\* answered from it: it reads no row, downloads and summarises no document,
\* builds no context and leaves the store as it is.
C2_CachedInitDoesNoWork ==
    [][ \A s \in Sessions :
          (resp'.op = "init" /\ resp'.sid = s /\ ContextOf(s) # None) =>
              /\ resp'.kind = "cached"
              /\ ~resp'.fetched /\ ~resp'.processed
              /\ heap' = heap /\ manager' = manager ]_vars

C2_Witness ==
    resp.op = "init" /\ resp.kind = "cached" /\ resp.status = 200

\* C3: the context_summary of an initialization call answered from the cache
\* has the fields and values of the summary the building call returned (the
\* documents and summaries of a stored context never change, so that summary
\* is BuiltSummary of the stored context).
C3_CachedSummaryEqualsFirst ==
    (resp.op = "init" /\ resp.kind = "cached") =>
        resp.body = BuiltSummary(heap[ContextOf(resp.sid)])

\* C4: after a connect for an id without a context, exactly one error message
\* has been sent on the websocket and no connection entry for the id remains.
C4_RejectedLeavesNoEntry ==
    \A w \in WebSockets :
        (pc[w] = "closed" /\ out # << >> /\ out[1] = [to |-> w, msg |-> NoContextError]) =>
            (Len(out) = 1 /\ EntryOf(wsid[w]) = None)

\* C5: on a connected channel of a session that has not been ended, each
\* non-empty question gets "processing" on that channel when it is received
\* and, when it has been handled, its answer on that channel, the log having
\* gained the user entry and the assistant entry in that order.
C5_QuestionsAnsweredInOrder ==
    [][ \A w \in WebSockets :
          /\ (pc[w] = "recv" /\ pc'[w] = "processing" /\ ~gone[w]
                /\ ContextOf(wsid[w]) # None) =>
                out' = << [to |-> w, msg |-> Processing] >>
          /\ (pc[w] = "processing" /\ pc'[w] = "recv" /\ ~gone[w]
                /\ ContextOf(wsid[w]) # None) =>
                /\ Len(out') = 1 /\ out'[1].to = w
                /\ out'[1].msg.type = "answer" /\ out'[1].msg.question = wq[w]
                /\ heap'[wctx[w]].conversations =
                     heap[wctx[w]].conversations \o
                       << Turn("user", wq[w]), Turn("assistant", out'[1].msg.answer) >> ]_vars

\* C6: when a running endpoint call ends (disconnect or exception), neither the
\* connection entry nor the context of its id remains; and a connect for an id
\* without a context gets the typed error and ends.
C6_DisconnectRemovesBoth ==
    [][ \A w \in WebSockets :
          /\ (Running(w) /\ pc'[w] = "closed") =>
                (manager'.active_connections[wsid[w]] = None
                 /\ manager'.session_contexts[wsid[w]] = None)
          /\ (pc[w] = "new" /\ pc'[w] # "new" /\ ContextOf(wsid'[w]) = None) =>
                (pc'[w] = "closed" /\ out' = << [to |-> w, msg |-> NoContextError] >>) ]_vars

C6_Witness ==
    \E s \in Sessions :
        /\ pc[1] = "closed" /\ pc[2] = "closed" /\ wsid[1] = s /\ wsid[2] = s
        /\ db[s].conversations # << >>
        /\ out = << [to |-> 2, msg |-> NoContextError] >>

\* C7: when POST /api/session/{id}/end has returned, its status is 200 and
\* neither a connection entry nor a context of the id remains.
C7_EndLeavesNothing ==
    resp.op = "end" =>
        (resp.status = 200 /\ EntryOf(resp.sid) = None /\ ContextOf(resp.sid) = None)

\* C8: at most one question of a session is between its "processing"
\* acknowledgment and its answer.
C8_OneQuestionInFlight ==
    \A s \in Sessions :
        Cardinality({ w \in WebSockets : pc[w] = "processing" /\ wsid[w] = s }) <= 1

\* C9: a connect makes its websocket the one entry of its id, replacing any
\* older entry; the entry of an id is never an older websocket than the newest
\* one connected for it; and every message sent for an id is delivered on that
\* newest websocket only.
C9_NewestConnectionOnly ==
    [][ /\ \A w \in WebSockets :
             (pc[w] = "new" /\ pc'[w] # "new") =>
                 manager'.active_connections[wsid'[w]] = w
        /\ \A s \in Sessions :
             manager'.active_connections[s] \in {None, Newest(pc', wsid', s)}
        /\ \A i \in 1..Len(out') :
             out'[i].to = Newest(pc', wsid', wsid'[out'[i].to]) ]_vars

C9_Witness ==
    /\ Running(1) /\ pc[2] = "recv" /\ wsid[1] = wsid[2]
    /\ pc[1] = "processing"
    /\ out = << [to |-> 2, msg |-> Processing] >>

\* C10: the responder never raises.  A question handled by a receive loop ends
\* with the two log entries and an "answer" message, never the error message
\* of the loop's except clause, and /api/query answers with 200 and a non-empty
\* answer; when the generative model fails on every call that answer is the
\* apology.
C10_ResponderNeverRaises ==
    [][ /\ \A w \in WebSockets :
             (pc[w] = "processing" /\ pc'[w] = "recv") =>
                 LET log == heap'[wctx[w]].conversations IN
                 /\ Len(log) = Len(heap[wctx[w]].conversations) + 2
                 /\ log[Len(log)].role = "assistant"
                 /\ log[Len(log)].message # << >>
                 /\ (gcp /\ gemini # "ok") =>
                        log[Len(log)].message = Apology(heap[wctx[w]])
                 /\ \A i \in 1..Len(out') :
                        /\ out'[i].msg.type = "answer"
                        /\ out'[i].msg.answer = log[Len(log)].message
        /\ (resp'.op = "query" /\ resp'.kind \in {"cached", "fallback"}) =>
                 /\ resp'.status = 200
                 /\ resp'.body.answer # << >>
                 /\ (gcp /\ gemini # "ok") =>
                        resp'.body.answer = << "I apologize", LoanName(resp'.sid) >> ]_vars

C10_Witness ==
    /\ gcp /\ gemini = "down"
    /\ out # << >> /\ out[1].msg.type = "answer"
    /\ out[1].msg.answer = << "I apologize", LoanName("s1") >>

\* the channel is Connected: its endpoint call waits in the receive loop, the
\* client has not closed, and it is the connection registered for its id
Connected(w) ==
    pc[w] = "recv" /\ ~gone[w] /\ EntryOf(wsid[w]) = w

\* a text that is empty after trimming holds blanks only
Blank(q) == \A i \in 1..Len(q) : q[i] = " "

EmptyError == Msg("error", "empty", NoText, NoText)
Pong       == Msg("pong", "timestamp", NoText, NoText)

\* C11: on a Connected channel a question message whose text is empty after
\* trimming gets exactly one error reply and nothing else; the channel stays
\* Connected and the logs, the store, the connection table and the external
\* store are as before.
C11_EmptyQuestionRejected ==
    [][ \A w \in WebSockets :
          (inp'.op = "question" /\ inp'.w = w /\ Blank(inp'.arg) /\ Connected(w)) =>
              /\ out' = << [to |-> w, msg |-> EmptyError] >>
              /\ pc'[w] = "recv" /\ wctx' = wctx
              /\ heap' = heap /\ manager' = manager /\ db' = db ]_vars

C11_Witness ==
    /\ inp.op = "question" /\ inp.arg = << " " >>
    /\ out = << [to |-> inp.w, msg |-> EmptyError] >>
    /\ pc[inp.w] = "recv" /\ EntryOf(wsid[inp.w]) = inp.w

\* C12: on a Connected channel a ping message gets exactly one pong reply and
\* changes nothing: logs, store, connection table, external store and the
\* position of every endpoint call are as before.
C12_PingPong ==
    [][ \A w \in WebSockets :
          (inp'.op = "ping" /\ inp'.w = w /\ Connected(w)) =>
              /\ out' = << [to |-> w, msg |-> Pong] >>
              /\ pc' = pc /\ wctx' = wctx
              /\ heap' = heap /\ manager' = manager /\ db' = db ]_vars

C12_Witness ==
    /\ inp.op = "ping"
    /\ out = << [to |-> inp.w, msg |-> Pong] >>
    /\ pc[inp.w] = "recv" /\ EntryOf(wsid[inp.w]) = inp.w
    /\ heap[wctx[inp.w]].conversations # << >>

\* C17: on a Connected channel a message of another type than question and
\* ping sends nothing and changes nothing; the endpoint call waits for the next
\* message.
C17_UnknownTypeIgnored ==
    [][ \A w \in WebSockets :
          (inp'.op = "other" /\ inp'.w = w /\ Connected(w)) =>
              /\ out' = << >>
              /\ pc' = pc /\ wctx' = wctx
              /\ heap' = heap /\ manager' = manager /\ db' = db ]_vars

C17_Witness ==
    /\ inp.op = "other"
    /\ pc[inp.w] = "recv" /\ EntryOf(wsid[inp.w]) = inp.w
    /\ heap[wctx[inp.w]].conversations # << >>

IsPrefix(a, b) == Len(a) <= Len(b) /\ SubSeq(b, 1, Len(a)) = a

\* C13: whenever the store holds a context of a session, its log extends the
\* log the store last held for that session (lastlog), whatever happened in
\* between; by induction the log of any earlier state is a prefix of the log of
\* any later one.
C13_LogAppendOnly ==
    [][ \A s \in Sessions :
          manager'.session_contexts[s] # None =>
              IsPrefix(lastlog[s], heap'[manager'.session_contexts[s]].conversations) ]_vars

\* C14: POST /api/query answers 400 when session_id or question is missing;
\* otherwise from the stored context when there is one, without reading the
\* row; otherwise 500 when the external store is unconfigured, 404 when the
\* row is absent, and else from the minimal context made of the row.  No query
\* changes the store, the contexts or the external store.
C14_QueryPaths ==
    [][ inp'.op = "query" =>
          /\ manager' = manager /\ heap' = heap /\ db' = db
          /\ IF resp'.sid = "" \/ inp'.arg = << >>
               THEN resp'.status = 400
             ELSE IF ContextOf(resp'.sid) # None
               THEN /\ resp'.status = 200 /\ ~resp'.fetched
                    /\ prompt' = PromptOf(heap[ContextOf(resp'.sid)], inp'.arg)
                    /\ resp'.body.answer =
                         generate_ai_response(heap[ContextOf(resp'.sid)], inp'.arg).text
             ELSE IF ~supabase
               THEN resp'.status = 500
             ELSE IF inp'.fetch = "nodata"
               THEN resp'.status = 404
             ELSE IF inp'.fetch = "data"
               THEN /\ resp'.status = 200
                    /\ prompt' = PromptOf(MinimalContext(resp'.sid, db[resp'.sid]), inp'.arg)
             ELSE resp'.status = 500 ]_vars

C14_Witness ==
    /\ inp.op = "query" /\ inp.fetch = "data" /\ resp.status = 200
    /\ ContextOf(resp.sid) = None
    /\ prompt # NoPrompt /\ prompt.history # << >>

\* C15: when the endpoint call of a connection that is no longer the entry of
\* its id ends, every other connection that is in its loop, is the entry of its
\* id and has its context in the store, still is and still has.
C15_StaleCleanupHarmless ==
    [][ \A w, v \in WebSockets :
          (/\ Running(w) /\ pc'[w] = "closed" /\ EntryOf(wsid[w]) # w
           /\ v # w /\ Running(v) /\ EntryOf(wsid[v]) = v /\ ContextOf(wsid[v]) # None) =>
              (/\ manager'.active_connections[wsid[v]] = v
               /\ manager'.session_contexts[wsid[v]] # None) ]_vars

\* C16: when the persist of an answer step fails on a Connected channel, the
\* user entry and the assistant entry stay in the log, the answer is sent on
\* the websocket and the endpoint call goes on receiving; the external store
\* is as before.
C16_PersistFailureNotFatal ==
    [][ \A w \in WebSockets :
          (/\ inp'.op = "answer" /\ inp'.w = w /\ ~inp'.ok
           /\ pc[w] = "processing" /\ ~gone[w] /\ EntryOf(wsid[w]) = w) =>
              /\ Len(out') = 1 /\ out'[1].to = w
              /\ out'[1].msg.type = "answer" /\ out'[1].msg.question = wq[w]
              /\ heap'[wctx[w]].conversations =
                   heap[wctx[w]].conversations \o
                     << Turn("user", wq[w]), Turn("assistant", out'[1].msg.answer) >>
              /\ pc'[w] = "recv" /\ manager' = manager /\ db' = db ]_vars

C16_Witness ==
    /\ inp.op = "answer" /\ ~inp.ok
    /\ out # << >> /\ out[1].to = inp.w /\ out[1].msg.type = "answer"
    /\ pc[inp.w] = "recv"
    /\ Len(heap[wctx[inp.w]].conversations) > Len(db[wsid[inp.w]].conversations)

\* C18: when the client has closed the channel, or the connection entry of the
\* id is gone, by the time the answer of a question is ready, the answer step
\* sends nothing, raises nothing and leaves the endpoint call in its loop.
C18_SendOnClosedIsNoOp ==
    [][ \A w \in WebSockets :
          (/\ pc[w] = "processing" /\ pc'[w] # "processing"
           /\ (gone[w] \/ EntryOf(wsid[w]) = None)) =>
              (pc'[w] = "recv" /\ out' = << >>) ]_vars

\* C19: an initialization that finds no stored context and reads the row
\* succeeds and stores a context whose document sequence has every document of
\* the row, in the row's order; a document whose download fails has the empty
\* string as content.
C19_UnreachableDocumentKept ==
    [][ \A s \in Sessions :
          (/\ inp'.op = "init" /\ inp'.fetch = "data" /\ resp'.sid = s
           /\ supabase /\ ContextOf(s) = None) =>
              /\ resp'.status = 200
              /\ manager'.session_contexts[s] # None
              /\ LET docs == heap'[manager'.session_contexts[s]].documents IN
                 /\ Len(docs) = Len(RowDocuments(s))
                 /\ \A i \in 1..Len(docs) :
                      /\ docs[i].filename = RowDocuments(s)[i].filename
                      /\ (/\ gcp
                          /\ RowDocuments(s)[i].ext \notin {"pdf", "xlsx", "xls"}
                          /\ Bucket(RowDocuments(s)[i].filename) = "error") =>
                             docs[i].content = [kind |-> "empty", of |-> ""] ]_vars

C19_Witness ==
    /\ gcp /\ inp.op = "init" /\ resp.status = 200 /\ resp.kind = "built"
    /\ LET docs == heap[ContextOf(resp.sid)].documents IN
       /\ Len(docs) = 4
       /\ docs[3].filename = "c.csv" /\ docs[3].content.kind = "empty"
       /\ docs[2].content.kind = "text"

\* C20: the history of an assembled prompt has at most HistoryWindow turns,
\* and they are the last turns of the context's log in the log's order: turn i
\* of the history is turn i of the log's tail of that length.
C20_HistoryWindow ==
    (inp.op = "query" /\ prompt # NoPrompt /\ resp.kind = "cached") =>
        LET log == heap[ContextOf(resp.sid)].conversations
            h   == prompt.history
        IN
        /\ Len(h) <= HistoryWindow /\ Len(h) <= Len(log)
        /\ Len(log) <= HistoryWindow => h = log
        /\ \A i \in 1..Len(h) : h[i] = log[Len(log) - Len(h) + i]

C20_Witness ==
    /\ inp.op = "query" /\ prompt # NoPrompt /\ resp.kind = "cached"
    /\ Len(heap[ContextOf(resp.sid)].conversations) > HistoryWindow
    /\ Len(prompt.history) = HistoryWindow
    /\ prompt.history[1] # prompt.history[2]

\* C21: in an assembled prompt, a document whose text content has more than
\* SnippetLimit characters is given by exactly its first SnippetLimit
\* characters followed by the marker "...", and a document whose text content
\* has more than MinContent and at most SnippetLimit characters by the whole
\* content, character for character.
C21_SnippetBounded ==
    (inp.op = "query" /\ prompt # NoPrompt /\ resp.kind = "cached") =>
        LET docs == heap[ContextOf(resp.sid)].documents IN
        \A i \in 1..Len(docs) :
            docs[i].content.kind = "text" =>
                LET c == docs[i].content.text
                    e == prompt.documents[i].text
                IN
                /\ Len(c) > SnippetLimit =>
                       /\ Len(e) = SnippetLimit + 1
                       /\ \A k \in 1..SnippetLimit : e[k] = c[k]
                       /\ e[SnippetLimit + 1] = "..."
                /\ (Len(c) > MinContent /\ Len(c) <= SnippetLimit) =>
                       /\ Len(e) >= Len(c)
                       /\ \A k \in 1..Len(c) : e[k] = c[k]

C21_Witness ==
    /\ inp.op = "query" /\ prompt # NoPrompt /\ resp.kind = "cached"
    /\ LET docs == heap[ContextOf(resp.sid)].documents IN
       /\ docs[2].content.kind = "text"
       /\ Len(docs[2].content.text) > SnippetLimit
       /\ Len(prompt.documents[2].text) = SnippetLimit + 1

\* C22: every message a step of a receive loop sends (processing, answer, error,
\* pong) is delivered on the websocket whose inbound message the step handles.
C22_RepliesOnSameConnection ==
    [][ inp'.op \in {"question", "answer", "ping"} =>
          \A i \in 1..Len(out') : out'[i].to = inp'.w ]_vars

\* the "processing" acknowledgment of websocket w's question is delivered on w
ProcessingSentOn(w) ==
    /\ inp.op = "question" /\ inp.w = w
    /\ \E i \in 1..Len(out) : out[i].to = w /\ out[i].msg.type = "processing"

\* the answer step of websocket w delivers an "answer" or an "error" on w
RepliedOn(w) ==
    /\ inp.op = "answer" /\ inp.w = w
    /\ \E i \in 1..Len(out) : out[i].to = w /\ out[i].msg.type \in {"answer", "error"}

\* C23: under a fair scheduler and a responder that returns, every "processing"
\* acknowledgment delivered on a websocket is eventually followed by an "answer"
\* or an "error" delivered on that websocket, unless its client has disconnected.
C23_ProcessingLeadsToReply ==
    \A w \in WebSockets : [](ProcessingSentOn(w) => <>(RepliedOn(w) \/ gone[w]))

====
